---- MODULE Spec2Model ----
(***************************************************************************)
(* Model of src/pixabay_viewer.py: the Tk event loop (UI thread), the      *)
(* worker threads started by search_images / _perform_search, the queue of *)
(* callbacks posted with root.after, and the widgets the handlers mutate.  *)
(* A handler run by the event loop is one step; a worker thread advances   *)
(* from one access of shared state to the next.  The language menu         *)
(* (change_language, retranslate_ui) and the clipboard are left out.       *)
(***************************************************************************)
EXTENDS Integers, Sequences, FiniteSets, TLC

\* ---------------------------------------------------------------- bounds
\* number of search / page requests the user starts in one run
MaxRequests == 2
\* length of the text typed into the search entry
MaxQueryLen == 1
\* number of hits in one API response of the interactive model
MaxHits == 1
\* largest totalHits an API response reports
MaxTotalHits == 49
\* number of result items handed to a stand-alone run of display_images
MaxRenderItems == 6
\* ranges of the page-count computation checked on its own
MaxCalcHits == 500
MaxCalcPerPage == 24

\* ------------------------------------------------------ program constants
per_page == 24
columns == 4

\* ---------------------------------------------------------------- state
VARIABLES
    stop_request,       \* self.stop_request
    current_page,       \* self.current_page
    total_pages,        \* self.total_pages
    current_query,      \* self.current_query
    images,             \* self.images: the hits of the last stored response
    photo_references,   \* self.photo_references
    search_btn,         \* self.search_btn["state"]
    stop_btn_packed,    \* self.stop_btn is packed (visible)
    progress_packed,    \* self.progress is packed (visible)
    progress_running,   \* self.progress auto-increment started
    status_var,         \* key of the message in the status line
    grid,               \* children of self.scrollable_frame
    pagination,         \* children of self.pagination_frame
    pagination_packed,  \* self.pagination_frame is packed (visible)
    messagebox,         \* last modal dialog shown
    after_queue,        \* callbacks posted with root.after(0, ...), FIFO
    threads,            \* one entry per started request: its thread position
    cancelled,          \* requests stopped before their response returned
    restores,           \* per request: runs of the restore-to-idle step
    rendered,           \* requests whose results display_images has rendered
    snap,               \* per request: results/page state before it started
    failed_items,       \* items whose image the last display_images failed to load
    calc                \* inputs and result of a stand-alone computation

vars == <<stop_request, current_page, total_pages, current_query, images,
          photo_references, search_btn, stop_btn_packed,
          progress_packed, progress_running, status_var, grid, pagination,
          pagination_packed, messagebox, after_queue, threads, cancelled, restores, rendered, snap, failed_items, calc>>

\* the widgets of the search bar and the progress bar
uiVars == <<search_btn, stop_btn_packed, progress_packed, progress_running>>
\* the bookkeeping of requests that no handler of the program reads
ghostVars == <<cancelled, restores, rendered, snap, failed_items>>

\* --------------------------------------------------------------- helpers
Max(a, b) == IF a >= b THEN a ELSE b
Min(a, b) == IF a <= b THEN a ELSE b

\* characters the user can type
Chars == {" ", "a"}

\* every text of at most n characters
RECURSIVE SeqsUpTo(_)
SeqsUpTo(n) ==
    IF n = 0 THEN {<<>>}
    ELSE LET shorter == SeqsUpTo(n - 1)
         IN  shorter \cup {Append(s, c) : s \in {t \in shorter : Len(t) = n - 1}, c \in Chars}

Queries == SeqsUpTo(MaxQueryLen)

\* the text with its leading and trailing blanks removed (str.strip)
RECURSIVE lstrip(_)
lstrip(s) == IF s # <<>> /\ Head(s) = " " THEN lstrip(Tail(s)) ELSE s

RECURSIVE rstrip(_)
rstrip(s) ==
    IF s # <<>> /\ s[Len(s)] = " " THEN rstrip(SubSeq(s, 1, Len(s) - 1)) ELSE s

\* the text used as typed
strip_missing(s) == s

strip(s) == rstrip(lstrip(s))

\* a callback posted with root.after(0, ...); req is the request it stems from
Callback(cb, arg, req) == [cb |-> cb, arg |-> arg, req |-> req]

\* the hits of a response to request r that carries n items
Hits(r, n) == [k \in 1..n |-> [src |-> r, id |-> k]]

\* a request: the thread(s) serving it, its arguments and how it ended
Thread(pc, query, page) ==
    [pc |-> pc, query |-> query, page |-> page, result |-> "none"]

\* positions at which the request's network response has not returned yet
PreResponse == {"ps_check", "ps_ui", "ps_store", "fetch_check", "http"}

Requests == DOMAIN threads

\* results and page state as a request finds them when it starts
PageState ==
    [images |-> images, grid |-> grid, total_pages |-> total_pages,
     current_page |-> current_page, current_query |-> current_query]

\* --------------------------------------------------- pagination arithmetic
\* the page count with the division rounded down
computeTotalPages_floor(totalHits, perPage) ==
    Max(1, totalHits \div perPage)

\* self.total_pages = max(1, (total_hits + self.per_page - 1) // self.per_page)
computeTotalPages(totalHits, perPage) ==
    Max(1, (totalHits + perPage - 1) \div perPage)

\* ------------------------------------------------------ pagination frame
NoControls ==
    [present |-> FALSE, prev |-> "disabled", next |-> "disabled",
     current |-> 0, total |-> 0]

\* the children update_pagination_controls leaves in self.pagination_frame
PaginationChildren(cp, tp) ==
    IF tp <= 1 THEN NoControls
    ELSE [present |-> TRUE,
          prev |-> IF cp = 1 THEN "disabled" ELSE "normal",
          next |-> IF cp >= tp THEN "disabled" ELSE "normal",
          current |-> cp, total |-> tp]

\* update_pagination_controls: rebuild the children, pack the frame if any
update_pagination_controls ==
    /\ pagination' = PaginationChildren(current_page, total_pages)
    /\ pagination_packed' = (IF total_pages <= 1 THEN pagination_packed ELSE TRUE)

\* page numbers the button commands pass to _perform_search
PreviousPage(cp) == Max(1, cp - 1)
NextPage(cp, tp) == Min(tp, cp + 1)

\* ------------------------------------------------------------ result grid
Frame(row, col, item, filled) ==
    [kind |-> "frame", row |-> row, col |-> col, item |-> item, filled |-> filled]

NoImagesLabel ==
    [kind |-> "label", row |-> 0, col |-> 0, item |-> 0, filled |-> TRUE]

\* the loop of display_images from 0-based index idx on: a frame is created
\* and gridded at (row, col) before the image is fetched; a failed fetch
\* continues with the next item without advancing (row, col)
RECURSIVE RenderLoop(_, _, _, _, _, _)
RenderLoop(items, failed, idx, row, col, acc) ==
    IF idx >= Len(items) \/ (idx > 0 /\ idx % per_page = 0) THEN acc
    ELSE IF (idx + 1) \in failed
         THEN RenderLoop(items, failed, idx + 1, row, col,
                         Append(acc, Frame(row, col, idx + 1, FALSE)))
         ELSE RenderLoop(items, failed, idx + 1,
                         IF col + 1 >= columns THEN row + 1 ELSE row,
                         IF col + 1 >= columns THEN 0 ELSE col + 1,
                         Append(acc, Frame(row, col, idx + 1, TRUE)))

\* the frames laid out top-to-bottom, column by column
RenderFrames_transposed(items, failed) ==
    LET f == RenderLoop(items, failed, 0, 0, 0, <<>>)
    IN  [i \in DOMAIN f |-> [f[i] EXCEPT !.row = f[i].col, !.col = f[i].row]]

\* the frames display_images leaves in self.scrollable_frame
RenderFrames(items, failed) == RenderLoop(items, failed, 0, 0, 0, <<>>)

\* number of items the loop of display_images visits
Visited(items) == Min(Len(items), per_page)

\* self.photo_references after the loop: the photos that were loaded
LoadedPhotos(items, failed) ==
    SelectSeq([k \in 1..Visited(items) |-> k], LAMBDA k : k \notin failed)

\* the status callbacks display_images posts: one per visited item, then ready
RenderStatus(items) ==
    [k \in 1..Visited(items) |-> Callback("update_status", "loading_image", items[1].src)]
        \o <<Callback("update_status", "ready", items[1].src)>>

\* display_images, run as the callback at the head of the queue
display_images(failed) ==
    IF images = <<>>
    THEN /\ grid' = <<NoImagesLabel>>
         /\ photo_references' = <<>>
         /\ pagination_packed' = FALSE
         /\ after_queue' = Tail(after_queue)
         /\ failed = {}
         /\ UNCHANGED <<status_var, progress_packed, progress_running, rendered,
                        failed_items>>
    ELSE /\ failed \subseteq 1..Visited(images)
         /\ status_var' = "loading_images"
         /\ grid' = RenderFrames(images, failed)
         /\ photo_references' = LoadedPhotos(images, failed)
         /\ after_queue' = Tail(after_queue) \o RenderStatus(images)
         /\ progress_running' = FALSE
         /\ progress_packed' = FALSE
         /\ rendered' = rendered \cup {images[1].src}
         /\ failed_items' = failed
         /\ UNCHANGED pagination_packed

\* ------------------------------------------------------------ idle state
\* the restore-to-idle step shared by stop_search and _reset_search_ui
RestoreIdle ==
    /\ search_btn' = "normal"
    /\ stop_btn_packed' = FALSE
    /\ progress_running' = FALSE
    /\ progress_packed' = FALSE

\* the in-progress widgets _perform_search (re)shows
ShowProgress ==
    /\ stop_btn_packed' = TRUE
    /\ progress_packed' = TRUE
    /\ progress_running' = TRUE

\* ------------------------------------------------------------------ Init
NoCalc == [op |-> "none", totalHits |-> 0, perPage |-> 1, result |-> 0]

\* the state PixabayViewer.__init__ and setup_ui leave
InitViewer ==
    /\ stop_request = FALSE
    /\ current_page = 1
    /\ total_pages = 1
    /\ current_query = <<>>
    /\ images = <<>>
    /\ photo_references = <<>>
    /\ search_btn = "normal"
    /\ stop_btn_packed = FALSE
    /\ progress_packed = FALSE
    /\ progress_running = FALSE
    /\ status_var = "Ready"
    /\ grid = <<>>
    /\ pagination = NoControls
    /\ pagination_packed = FALSE
    /\ messagebox = "none"
    /\ after_queue = <<>>
    /\ threads = <<>>
    /\ cancelled = {}
    /\ restores = <<>>
    /\ rendered = {}
    /\ snap = <<>>
    /\ failed_items = {}

Init == InitViewer /\ calc = NoCalc

\* ------------------------------------------------- UI thread: user events
\* search_images: the Search button or <Return> in the entry holding text q
search_images(q) ==
    LET query == strip(q) IN
    IF query = <<>>
    THEN /\ messagebox' = "empty_query"
         /\ UNCHANGED <<stop_request, current_page, total_pages, current_query,
                        images, photo_references, uiVars, status_var,
                        grid, pagination, pagination_packed, after_queue,
                        threads, ghostVars, calc>>
    ELSE /\ Len(threads) < MaxRequests
         /\ stop_request' = FALSE
         /\ search_btn' = "disabled"
         /\ ShowProgress
         /\ status_var' = "searching_for"
         /\ grid' = <<>>
         /\ photo_references' = <<>>
         /\ threads' = Append(threads, Thread("ps_check", query, 1))
         /\ snap' = Append(snap, PageState)
         /\ restores' = Append(restores, 0)
         /\ UNCHANGED <<current_page, total_pages, current_query, images,
                        pagination, pagination_packed, messagebox,
                        after_queue, cancelled, rendered,
                        failed_items, calc>>

\* stop_search: the Stop button, clickable while it is packed
stop_search ==
    /\ stop_btn_packed
    /\ stop_request' = TRUE
    /\ RestoreIdle
    /\ status_var' = "Search stopped"
    /\ cancelled' = cancelled \cup {r \in Requests : threads[r].pc \in PreResponse}
    /\ restores' = [r \in DOMAIN restores |->
                       IF threads[r].pc \in PreResponse /\ r \notin cancelled
                       THEN restores[r] + 1 ELSE restores[r]]
    /\ UNCHANGED <<current_page, total_pages, current_query, images,
                   photo_references, grid, pagination,
                   pagination_packed, messagebox, after_queue, threads,
                   rendered, snap, failed_items, calc>>

\* _perform_search(query, page) called on the UI thread by a button command
perform_search(query, page) ==
    IF stop_request
    THEN UNCHANGED <<after_queue, uiVars, current_query, current_page, threads,
                     snap, restores>>
    ELSE /\ Len(threads) < MaxRequests
         /\ after_queue' =
                Append(after_queue,
                       Callback("update_status", "contacting_api", Len(threads) + 1))
         /\ ShowProgress
         /\ current_query' = query
         /\ current_page' = page
         /\ threads' = Append(threads, Thread("fetch_check", query, page))
         /\ snap' = Append(snap, PageState)
         /\ restores' = Append(restores, 0)
         /\ UNCHANGED search_btn

\* a pagination button can be activated while it is shown and not disabled
PreviousClickable ==
    pagination.present /\ pagination_packed /\ pagination.prev = "normal"
NextClickable ==
    pagination.present /\ pagination_packed /\ pagination.next = "normal"

\* the Previous button: its command calls _perform_search
click_previous ==
    /\ PreviousClickable
    /\ perform_search(current_query, PreviousPage(current_page))
    /\ UNCHANGED <<stop_request, total_pages, images, photo_references, status_var, grid, pagination, pagination_packed, messagebox,
                   cancelled, rendered, failed_items, calc>>

\* the Next button: its command calls _perform_search
click_next ==
    /\ NextClickable
    /\ perform_search(current_query, NextPage(current_page, total_pages))
    /\ UNCHANGED <<stop_request, total_pages, images, photo_references, status_var, grid, pagination, pagination_packed, messagebox,
                   cancelled, rendered, failed_items, calc>>

\* --------------------------------------------- UI thread: posted callbacks
\* the event loop runs the callback at the head of the root.after queue
HeadIs(cb) == after_queue # <<>> /\ Head(after_queue).cb = cb

\* what no posted callback touches
callbackFrame ==
    <<stop_request, current_page, total_pages, current_query, images, threads,
      cancelled, snap, calc>>

\* update_status(message_key)
run_update_status ==
    /\ HeadIs("update_status")
    /\ status_var' = Head(after_queue).arg
    /\ after_queue' = Tail(after_queue)
    /\ UNCHANGED <<uiVars, grid, photo_references, pagination, pagination_packed,
                   messagebox, restores, rendered, failed_items>>
    /\ UNCHANGED callbackFrame

\* self.progress.step(amount): the indeterminate bar keeps no modelled value
run_progress_step ==
    /\ HeadIs("progress_step")
    /\ after_queue' = Tail(after_queue)
    /\ UNCHANGED <<status_var, uiVars, grid, photo_references, pagination,
                   pagination_packed, messagebox, restores, rendered, failed_items>>
    /\ UNCHANGED callbackFrame

\* messagebox.showerror(title, message)
run_showerror ==
    /\ HeadIs("showerror")
    /\ messagebox' = Head(after_queue).arg
    /\ after_queue' = Tail(after_queue)
    /\ UNCHANGED <<status_var, uiVars, grid, photo_references, pagination,
                   pagination_packed, restores, rendered, failed_items>>
    /\ UNCHANGED callbackFrame

\* _reset_search_ui
run_reset_search_ui ==
    /\ HeadIs("reset_search_ui")
    /\ RestoreIdle
    /\ restores' = [restores EXCEPT ![Head(after_queue).req] = @ + 1]
    /\ after_queue' = Tail(after_queue)
    /\ UNCHANGED <<status_var, grid, photo_references, pagination,
                   pagination_packed, messagebox, rendered, failed_items>>
    /\ UNCHANGED callbackFrame

\* update_pagination_controls as a posted callback
run_update_pagination_controls ==
    /\ HeadIs("update_pagination_controls")
    /\ update_pagination_controls
    /\ after_queue' = Tail(after_queue)
    /\ UNCHANGED <<status_var, uiVars, grid, photo_references, messagebox,
                   restores, rendered, failed_items>>
    /\ UNCHANGED callbackFrame

\* display_images as a posted callback; each image fetch succeeds or fails
run_display_images ==
    /\ HeadIs("display_images")
    /\ \E failed \in SUBSET (1..Len(images)) : display_images(failed)
    /\ UNCHANGED <<search_btn, stop_btn_packed, pagination, messagebox, restores>>
    /\ UNCHANGED callbackFrame

\* ------------------------------------------------------------ worker threads
\* post callbacks, in order, from the thread serving request r
Post(cbs) == after_queue' = after_queue \o cbs

\* a finally clause that posts nothing that resets the widgets
ResetCallback_missing(r) == Callback("progress_step", "0", r)

\* the finally clause of _fetch_images: root.after(0, self._reset_search_ui)
ResetCallback(r) == Callback("reset_search_ui", "", r)

\* _perform_search in the thread search_images started: the stop check
perform_search_check(r) ==
    /\ threads[r].pc = "ps_check"
    /\ threads' = [threads EXCEPT ![r] =
                      IF stop_request
                      THEN [@ EXCEPT !.pc = "done", !.result = "not_started"]
                      ELSE [@ EXCEPT !.pc = "ps_ui"]]
    /\ UNCHANGED <<stop_request, current_page, total_pages, current_query, images,
                   photo_references, uiVars, status_var, grid,
                   pagination, pagination_packed, messagebox, after_queue,
                   ghostVars, calc>>

\* _perform_search in that thread: status callback and in-progress widgets
perform_search_widgets(r) ==
    /\ threads[r].pc = "ps_ui"
    /\ Post(<<Callback("update_status", "contacting_api", r)>>)
    /\ ShowProgress
    /\ threads' = [threads EXCEPT ![r].pc = "ps_store"]
    /\ UNCHANGED <<stop_request, current_page, total_pages, current_query, images,
                   photo_references, search_btn, status_var, grid,
                   pagination, pagination_packed, messagebox, ghostVars, calc>>

\* _perform_search in that thread: store the search state, start _fetch_images
perform_search_store(r) ==
    /\ threads[r].pc = "ps_store"
    /\ current_query' = threads[r].query
    /\ current_page' = threads[r].page
    /\ threads' = [threads EXCEPT ![r].pc = "fetch_check"]
    /\ UNCHANGED <<stop_request, total_pages, images, photo_references, uiVars, status_var, grid, pagination, pagination_packed,
                   messagebox, after_queue, ghostVars, calc>>

\* _fetch_images: the stop check before the request is issued
fetch_check(r) ==
    /\ threads[r].pc = "fetch_check"
    /\ IF stop_request
       THEN /\ Post(<<ResetCallback(r)>>)
            /\ threads' = [threads EXCEPT ![r].pc = "done", ![r].result = "cancelled"]
       ELSE /\ Post(<<Callback("update_status", "contacting_api", r),
                      Callback("update_status", "fetching_page", r)>>)
            /\ threads' = [threads EXCEPT ![r].pc = "http"]
    /\ UNCHANGED <<stop_request, current_page, total_pages, current_query, images,
                   photo_references, uiVars, status_var, grid,
                   pagination, pagination_packed, messagebox, ghostVars, calc>>

\* requests.get returns a response, or raises Timeout / RequestException
http_return(r) ==
    /\ threads[r].pc = "http"
    /\ \/ /\ threads' = [threads EXCEPT ![r].pc = "responded"]
          /\ UNCHANGED after_queue
       \/ /\ Post(<<Callback("showerror", "timeout", r), ResetCallback(r)>>)
          /\ threads' = [threads EXCEPT ![r].pc = "done", ![r].result = "timeout"]
       \/ /\ Post(<<Callback("showerror", "network_error", r), ResetCallback(r)>>)
          /\ threads' = [threads EXCEPT ![r].pc = "done", ![r].result = "network_error"]
    /\ UNCHANGED <<stop_request, current_page, total_pages, current_query, images,
                   photo_references, uiVars, status_var, grid,
                   pagination, pagination_packed, messagebox, ghostVars, calc>>

\* totalHits values an API response reports: the page boundaries
TotalHitsValues ==
    {0} \cup {t \in 1..MaxTotalHits : t % per_page \in {0, 1}}

\* bodies of a response: not JSON, JSON without hits/totalHits, or a result
\* page with n items out of totalHits
Bodies ==
    {[kind |-> "notjson", totalHits |-> 0, hits |-> 0],
     [kind |-> "malformed", totalHits |-> 0, hits |-> 0]}
    \cup {[kind |-> "ok", totalHits |-> t, hits |-> n] :
            t \in TotalHitsValues, n \in 0..MaxHits}

\* the callbacks _fetch_images posts after storing a result page
ResultCallbacks(r, n) ==
    <<Callback("progress_step", "75", r)>>
    \o (IF n = 0
        THEN <<Callback("update_status", "no_images", r)>>
        ELSE <<Callback("display_images", "", r),
               Callback("update_pagination_controls", "", r),
               Callback("progress_step", "100", r)>>)

\* _fetch_images after requests.get returned: stop check, parse, store, post
fetch_process(r) ==
    /\ threads[r].pc = "responded"
    /\ IF stop_request
       THEN /\ Post(<<ResetCallback(r)>>)
            /\ threads' = [threads EXCEPT ![r].pc = "done", ![r].result = "cancelled"]
            /\ UNCHANGED <<images, total_pages>>
       ELSE \E body \in Bodies :
            /\ (body.hits = 0) <=> (body.totalHits = 0)
            /\ body.hits <= Min(body.totalHits, per_page)
            /\ threads' = [threads EXCEPT ![r].pc = "done", ![r].result = body.kind]
            /\ CASE body.kind = "notjson" ->
                      \* response.json() raises: a ValueError, or with newer
                      \* releases of requests a RequestException
                      /\ \E handler \in {"unexpected_error", "network_error"} :
                            Post(<<Callback("progress_step", "25", r),
                                   Callback("showerror", handler, r),
                                   ResetCallback(r)>>)
                      /\ UNCHANGED <<images, total_pages>>
                 [] body.kind = "malformed" ->
                      /\ Post(<<Callback("progress_step", "25", r),
                                Callback("showerror", "invalid_response", r),
                                ResetCallback(r)>>)
                      /\ UNCHANGED <<images, total_pages>>
                 [] body.kind = "ok" ->
                      /\ images' = Hits(r, body.hits)
                      /\ total_pages' = computeTotalPages(body.totalHits, per_page)
                      /\ Post(<<Callback("progress_step", "25", r)>>
                              \o ResultCallbacks(r, body.hits)
                              \o <<ResetCallback(r)>>)
    /\ UNCHANGED <<stop_request, current_page, current_query, photo_references,
                   uiVars, status_var, grid, pagination,
                   pagination_packed, messagebox, ghostVars, calc>>

\* ------------------------------------------------------------------ Next
Next ==
    \/ \E q \in Queries : search_images(q)
    \/ stop_search
    \/ click_previous
    \/ click_next
    \/ run_update_status
    \/ run_progress_step
    \/ run_showerror
    \/ run_reset_search_ui
    \/ run_update_pagination_controls
    \/ run_display_images
    \/ \E r \in Requests : perform_search_check(r)
    \/ \E r \in Requests : perform_search_widgets(r)
    \/ \E r \in Requests : perform_search_store(r)
    \/ \E r \in Requests : fetch_check(r)
    \/ \E r \in Requests : http_return(r)
    \/ \E r \in Requests : fetch_process(r)

Spec == Init /\ [][Next]_vars

\* ------------------------------------------- the page count on its own
\* inputs of the page-count computation: totalHits >= 0, perPage >= 1
InitPages ==
    /\ InitViewer
    /\ calc \in {[op |-> "pages", totalHits |-> t, perPage |-> p, result |-> 0] :
                    t \in 0..MaxCalcHits, p \in 1..MaxCalcPerPage}

\* the assignment to self.total_pages in _fetch_images, applied to the inputs
compute_pages ==
    /\ calc.op = "pages"
    /\ calc' = [calc EXCEPT !.op = "paged",
                            !.result = computeTotalPages(calc.totalHits, calc.perPage)]
    /\ UNCHANGED <<stop_request, current_page, total_pages, current_query, images,
                   photo_references, uiVars, status_var, grid, pagination,
                   pagination_packed, messagebox, after_queue, threads, ghostVars>>

NextPages == compute_pages

SpecPages == InitPages /\ [][NextPages]_vars

\* ------------------------------------ display_images on pages of any size
\* the state with a stored result page of m items whose display_images
\* callback is next in the queue
InitRender ==
    \E m \in 1..MaxRenderItems :
        /\ stop_request = FALSE
        /\ current_page = 1
        /\ total_pages = computeTotalPages(m, per_page)
        /\ current_query = <<"a">>
        /\ images = Hits(1, m)
        /\ photo_references = <<>>
        /\ search_btn = "disabled"
        /\ stop_btn_packed = TRUE
        /\ progress_packed = TRUE
        /\ progress_running = TRUE
        /\ status_var = "fetching_page"
        /\ grid = <<>>
        /\ pagination = NoControls
        /\ pagination_packed = FALSE
        /\ messagebox = "none"
        /\ after_queue = <<Callback("display_images", "", 1),
                           Callback("update_pagination_controls", "", 1),
                           Callback("progress_step", "100", 1),
                           ResetCallback(1)>>
        /\ threads = <<[Thread("done", <<"a">>, 1) EXCEPT !.result = "ok"]>>
        /\ cancelled = {}
        /\ restores = <<0>>
        /\ rendered = {}
        /\ snap = <<[images |-> <<>>, grid |-> <<>>, total_pages |-> 1,
                     current_page |-> 1, current_query |-> <<>>]>>
        /\ failed_items = {}
        /\ calc = NoCalc

NextRender ==
    \/ run_display_images
    \/ run_update_status
    \/ run_update_pagination_controls
    \/ run_progress_step
    \/ run_reset_search_ui

SpecRender == InitRender /\ [][NextRender]_vars

\* ------------------------------------------ paging through a result set
\* the state after a search for "a" has completed with the largest result
\* set and its first page is displayed; requests are counted from here
InitPaging ==
    /\ stop_request = FALSE
    /\ current_page = 1
    /\ total_pages = computeTotalPages(MaxTotalHits, per_page)
    /\ current_query = <<"a">>
    /\ images = Hits(0, 1)
    /\ photo_references = <<1>>
    /\ search_btn = "normal"
    /\ stop_btn_packed = FALSE
    /\ progress_packed = FALSE
    /\ progress_running = FALSE
    /\ status_var = "ready"
    /\ grid = RenderFrames(Hits(0, 1), {})
    /\ pagination = PaginationChildren(1, computeTotalPages(MaxTotalHits, per_page))
    /\ pagination_packed = TRUE
    /\ messagebox = "none"
    /\ after_queue = <<>>
    /\ threads = <<>>
    /\ cancelled = {}
    /\ restores = <<>>
    /\ rendered = {}
    /\ snap = <<>>
    /\ failed_items = {}
    /\ calc = NoCalc

SpecPaging == InitPaging /\ [][Next]_vars

\* ---------------------------------------------------------------- fairness
\* every started thread keeps running, every HTTP call returns or times out,
\* and the event loop runs every posted callback
WorkerStep(r) ==
    \/ perform_search_check(r)
    \/ perform_search_widgets(r)
    \/ perform_search_store(r)
    \/ fetch_check(r)
    \/ http_return(r)
    \/ fetch_process(r)

RunCallback ==
    \/ run_update_status
    \/ run_progress_step
    \/ run_showerror
    \/ run_reset_search_ui
    \/ run_update_pagination_controls
    \/ run_display_images

FairSpec ==
    /\ Spec
    /\ WF_vars(RunCallback)
    /\ \A r \in 1..MaxRequests : WF_vars(r \in Requests /\ WorkerStep(r))

\* ------------------------------------------------------------- Translator
\* nesting depth of a translation file
MaxDepth == 2
\* length of a message key
MaxKeyLen == 3

\* characters of a message key, and the names an entry can have
KeyChars == {"a", "b", "."}
Names == {<<"a">>, <<"b">>}

NoEntries == [n \in {} |-> 0]

\* a JSON string, and a JSON object with the given entries
StrNode == [type |-> "str", entries |-> NoEntries]
DictNode(f) == [type |-> "dict", entries |-> f]

\* the text of a translated string, and str() of a nested mapping
StrText == <<"T">>
DictText == <<"{", "}">>

\* JSON values nested at most d deep
RECURSIVE Nodes(_)
Nodes(d) ==
    IF d = 0 THEN {StrNode}
    ELSE {StrNode} \cup
         {DictNode(f) : f \in UNION {[S -> Nodes(d - 1)] : S \in SUBSET Names}}

\* the mappings json.load can leave in self.translations; the empty one is
\* also what __init__ leaves when no file could be loaded
TranslationFiles == {n \in Nodes(MaxDepth) : n.type = "dict"}

\* every text of at most n key characters
RECURSIVE KeysUpTo(_)
KeysUpTo(n) ==
    IF n = 0 THEN {<<>>}
    ELSE LET shorter == KeysUpTo(n - 1)
         IN  shorter \cup {Append(s, c) : s \in {t \in shorter : Len(t) = n - 1},
                                          c \in KeyChars}

\* key.split("."): the pieces between the dots, empty pieces included
RECURSIVE split(_, _)
split(key, piece) ==
    IF key = <<>> THEN <<piece>>
    ELSE IF Head(key) = "." THEN <<piece>> \o split(Tail(key), <<>>)
         ELSE split(Tail(key), Append(piece, Head(key)))

\* the loop "for k in keys: value = value[k]": the value reached, or the
\* exception the subscript raises (KeyError on a mapping without k,
\* TypeError on a string, which a str key cannot index)
RECURSIVE subscript(_, _)
subscript(value, keys) ==
    IF keys = <<>> THEN [raised |-> "none", value |-> value]
    ELSE IF value.type = "str" THEN [raised |-> "TypeError", value |-> value]
    ELSE IF Head(keys) \notin DOMAIN value.entries
         THEN [raised |-> "KeyError", value |-> value]
         ELSE subscript(value.entries[Head(keys)], Tail(keys))

\* Translator.get(key) without keyword arguments: the text returned, or the
\* exception that leaves the method
get(translations, key) ==
    LET found == subscript(translations, split(key, <<>>)) IN
    CASE found.raised = "none" ->
            [raised |-> "none",
             text |-> IF found.value.type = "str" THEN StrText ELSE DictText]
      [] found.raised = "KeyError" -> [raised |-> "none", text |-> key]
      [] found.raised = "TypeError" -> [raised |-> "TypeError", text |-> <<>>]

\* a loaded (or empty) mapping and a key to look up
InitGet ==
    /\ InitViewer
    /\ calc \in {[op |-> "get", translations |-> t, key |-> k,
                  result |-> [raised |-> "none", text |-> <<>>]] :
                    t \in TranslationFiles, k \in KeysUpTo(MaxKeyLen)}

\* self.translator.get(key)
translator_get ==
    /\ calc.op = "get"
    /\ calc' = [calc EXCEPT !.op = "got", !.result = get(calc.translations, calc.key)]
    /\ UNCHANGED <<stop_request, current_page, total_pages, current_query, images,
                   photo_references, uiVars, status_var, grid, pagination,
                   pagination_packed, messagebox, after_queue, threads, ghostVars>>

NextGet == translator_get

SpecGet == InitGet /\ [][NextGet]_vars

\* --------------------------------------------- Translator.load_translations
\* calls of load_translations after which a run is cut off
MaxCalls == 4

LanguageCodes == {"en", "it", "de"}

\* translations/<language>.json: readable, absent (open raises) or not JSON
\* (json.load raises)
FileStates == {"ok", "missing", "invalid"}

EmptyTranslations == DictNode(NoEntries)

\* what json.load returns for the file of a language
FileContent(lang) == DictNode([n \in {<<lang>>} |-> StrNode])

\* one call of load_translations that falls back without switching to "en"
load_translations_same_language(t) ==
    IF t.files[t.language] = "ok"
    THEN [t EXCEPT !.calls = @ + 1, !.translations = FileContent(t.language),
                   !.pc = "done"]
    ELSE IF t.language # "en"
         THEN [t EXCEPT !.calls = @ + 1, !.pc = "call"]
         ELSE [t EXCEPT !.calls = @ + 1, !.pc = "done"]

\* one call of load_translations: load the file of self.language; on any
\* exception switch to "en" and call again, unless the language is "en"
load_translations(t) ==
    IF t.files[t.language] = "ok"
    THEN [t EXCEPT !.calls = @ + 1, !.translations = FileContent(t.language),
                   !.pc = "done"]
    ELSE IF t.language # "en"
         THEN [t EXCEPT !.calls = @ + 1, !.language = "en", !.pc = "call"]
         ELSE [t EXCEPT !.calls = @ + 1, !.pc = "done"]

\* Translator(language) is about to be constructed, with any set of files
InitLoad ==
    /\ InitViewer
    /\ calc \in {[op |-> "load", requested |-> lang, files |-> f, language |-> "",
                  translations |-> EmptyTranslations, calls |-> 0, pc |-> "new"] :
                    lang \in LanguageCodes, f \in [LanguageCodes -> FileStates]}

\* Translator.__init__ up to its call of load_translations
translator_init ==
    /\ calc.op = "load" /\ calc.pc = "new"
    /\ calc' = [calc EXCEPT !.language = calc.requested,
                            !.translations = EmptyTranslations, !.pc = "call"]
    /\ UNCHANGED <<stop_request, current_page, total_pages, current_query, images,
                   photo_references, uiVars, status_var, grid, pagination,
                   pagination_packed, messagebox, after_queue, threads, ghostVars>>

\* a call of load_translations, the first or a re-invocation
translator_load ==
    /\ calc.op = "load" /\ calc.pc = "call"
    /\ calc.calls < MaxCalls
    /\ calc' = load_translations(calc)
    /\ UNCHANGED <<stop_request, current_page, total_pages, current_query, images,
                   photo_references, uiVars, status_var, grid, pagination,
                   pagination_packed, messagebox, after_queue, threads, ghostVars>>

NextLoad == translator_init \/ translator_load

SpecLoad == InitLoad /\ [][NextLoad]_vars

\* ------------------------------------------------ display_images: cell title
\* longest tags text tried
MaxTagsLen == 11

\* characters of a tags text: a letter, a character that is not a letter,
\* and white space
TagChars == {"a", "'", " "}

IsLetter(c) == c \in {"a", "A"}

upper(c) == IF c = "a" THEN "A" ELSE c

lower(c) == IF c = "A" THEN "a" ELSE c

RECURSIVE title_from(_, _, _)
\* str.title() from position i on: a letter that follows a letter is
\* lowercased, a letter that follows anything else is uppercased
title_from(s, i, previous_is_cased) ==
    IF i > Len(s) THEN <<>>
    ELSE LET c == s[i]
         IN  <<IF IsLetter(c)
               THEN (IF previous_is_cased THEN lower(c) ELSE upper(c))
               ELSE c>> \o title_from(s, i + 1, IsLetter(c))

title(s) == title_from(s, 1, FALSE)

RECURSIVE split_whitespace_from(_, _, _)
split_whitespace_from(s, i, piece) ==
    IF i > Len(s) THEN (IF piece = <<>> THEN <<>> ELSE <<piece>>)
    ELSE IF s[i] = " "
         THEN (IF piece = <<>> THEN <<>> ELSE <<piece>>)
                  \o split_whitespace_from(s, i + 1, <<>>)
         ELSE split_whitespace_from(s, i + 1, Append(piece, s[i]))

\* str.split() without argument: the maximal runs of non-blank characters
split_whitespace(s) == split_whitespace_from(s, 1, <<>>)

RECURSIVE join(_)
\* " ".join(words)
join(words) ==
    IF words = <<>> THEN <<>>
    ELSE IF Len(words) = 1 THEN words[1]
         ELSE words[1] \o <<" ">> \o join(Tail(words))

Ellipsis == <<".", ".", ".">>

\* the text of the title label of one cell
title_text(tags) ==
    LET image_title == title(tags)
        words == split_whitespace(image_title)
    IN  join(SubSeq(words, 1, Min(5, Len(words))))
            \o (IF Len(words) > 5 THEN Ellipsis ELSE <<>>)

RECURSIVE TagsUpTo(_)
\* every tags text of at most n characters
TagsUpTo(n) ==
    IF n = 0 THEN {<<>>}
    ELSE LET shorter == TagsUpTo(n - 1)
         IN  shorter \cup {Append(s, c) : s \in {t \in shorter : Len(t) = n - 1},
                                          c \in TagChars}

InitTitle ==
    /\ InitViewer
    /\ calc \in {[op |-> "title", tags |-> s, result |-> <<>>] :
                    s \in TagsUpTo(MaxTagsLen)}

\* the title of a cell is computed from the tags of its item
compute_title ==
    /\ calc.op = "title"
    /\ calc' = [calc EXCEPT !.op = "titled", !.result = title_text(calc.tags)]
    /\ UNCHANGED <<stop_request, current_page, total_pages, current_query, images,
                   photo_references, uiVars, status_var, grid, pagination,
                   pagination_packed, messagebox, after_queue, threads, ghostVars>>

NextTitle == compute_title

SpecTitle == InitTitle /\ [][NextTitle]_vars

\* ------------------------------------------------- blocking calls by thread
\* the requests.get calls one run of display_images makes in its own thread:
\* one per visited item
image_requests(items) == Visited(items)

\* ================================================================ claims

\* C1: a search that stop_search cancelled before its network response
\* returned never has its results rendered by display_images, whatever the
\* user, the workers and the posted callbacks do afterwards.
C1_CancelledNeverRendered == \A r \in cancelled : r \notin rendered

\* a query that is empty once its blanks are trimmed
IsBlank(q) == \A i \in 1..Len(q) : q[i] = " "

\* C2: search_images with an empty or whitespace-only query signals the
\* validation error and changes nothing else: no worker is started, nothing
\* is posted, and stop_request, current_page, current_query, total_pages,
\* images and the idle/in-progress widgets keep their values.
C2_BlankQueryRejected ==
    [][\A q \in Queries :
          (IsBlank(q) /\ search_images(q)) =>
              /\ messagebox' = "empty_query"
              /\ UNCHANGED <<stop_request, current_page, current_query,
                             total_pages, images, uiVars, threads, after_queue,
                             grid, photo_references>>]_vars

\* a blank query was submitted and a search is in progress
C2_Witness ==
    /\ messagebox = "empty_query"
    /\ threads # <<>>
    /\ threads[1].pc = "http"
    /\ search_btn = "disabled"

\* ceil(a / b): the least n with n * b >= a
CeilDiv(a, b) == CHOOSE n \in 0..a : n * b >= a /\ (n = 0 \/ (n - 1) * b < a)

\* C3: the computed page count equals max(1, ceil(totalHits / perPage)) for
\* every totalHits >= 0 and perPage >= 1; 0 hits give 1 page, (21, 21) gives
\* 1, (22, 21) gives 2 and (500, 24) gives 21.
C3_PageCount ==
    calc.op = "paged" =>
        /\ calc.result = Max(1, CeilDiv(calc.totalHits, calc.perPage))
        /\ (calc.totalHits = 0 => calc.result = 1)
        /\ (calc.totalHits = 21 /\ calc.perPage = 21 => calc.result = 1)
        /\ (calc.totalHits = 22 /\ calc.perPage = 21 => calc.result = 2)
        /\ (calc.totalHits = 500 /\ calc.perPage = 24 => calc.result = 21)

\* the page count of 500 hits at 24 per page has been computed
C3_Witness ==
    calc.op = "paged" /\ calc.totalHits = 500 /\ calc.perPage = 24 /\ calc.result = 21

\* C4: in every reachable state 1 <= current_page <= total_pages.
C4_PageInRange == 1 <= current_page /\ current_page <= total_pages

\* C5: the page number a Previous or Next activation passes to
\* _perform_search lies in [1, total_pages] at the moment of activation.
C5_RequestedPageInRange ==
    /\ PreviousClickable => PreviousPage(current_page) \in 1..total_pages
    /\ NextClickable => NextPage(current_page, total_pages) \in 1..total_pages

\* request r ends in this step with the malformed-response notification
EndsMalformed(r) ==
    threads[r].result = "none" /\ threads'[r].result = "malformed"

\* C6: a malformed response ends the search with the MalformedResponse
\* notification, posts no render, and leaves images, the displayed grid,
\* total_pages, current_page and current_query at the values they had
\* before the request was started.
C6_MalformedLeavesState ==
    [][\A r \in Requests :
          EndsMalformed(r) =>
              /\ \E i \in DOMAIN after_queue' :
                    after_queue'[i] = Callback("showerror", "invalid_response", r)
              /\ \A i \in DOMAIN after_queue' :
                    after_queue'[i] # Callback("display_images", "", r)
              /\ PageState' = snap[r]]_vars

\* the search bar is idle / shows a search in progress
Idle == search_btn = "normal" /\ ~stop_btn_packed /\ ~progress_packed
InProgress == search_btn = "disabled" \/ stop_btn_packed \/ progress_packed

\* C7: whenever the UI is in the in-progress state (search button disabled,
\* or stop button or progress bar shown) it is eventually idle again, on
\* every path a search can take, provided threads keep running, HTTP calls
\* return or time out and posted callbacks are run.
C7_EventuallyIdle == InProgress ~> Idle

\* a search went through the in-progress state, was rendered and reset
C7_Witness ==
    /\ Idle
    /\ \E r \in Requests :
          threads[r].result = "ok" /\ r \in rendered /\ restores[r] = 1

\* request r has run to its end: its threads are done, its callbacks were run
Finished(r) ==
    /\ threads[r].pc = "done"
    /\ \A i \in DOMAIN after_queue : after_queue[i].req # r

\* C8: for a search cancelled by stop_search before its response returned,
\* the restore-to-idle step runs exactly once, counting stop_search and the
\* _reset_search_ui the worker posts.
C8_RestoredExactlyOnce ==
    \A r \in cancelled : Finished(r) => restores[r] = 1

\* C9: when display_images has run on a page of M items of which F failed to
\* load, every item that did not fail was processed (items after a failed
\* one included) and the grid holds exactly M - F frames, none of them the
\* frame of a failed item.
C9_FailedItemsLeaveNoFrame ==
    rendered # {} =>
        /\ photo_references = LoadedPhotos(images, failed_items)
        /\ Len(grid) = Len(images) - Cardinality(failed_items)
        /\ \A i \in DOMAIN grid : grid[i].kind = "frame" /\ grid[i].filled

\* C10: each run of update_pagination_controls leaves no controls when
\* total_pages <= 1; otherwise a Previous button disabled iff
\* current_page = 1 and a Next button disabled iff current_page = total_pages.
C10_PaginationControls ==
    [][run_update_pagination_controls =>
          IF total_pages <= 1
          THEN ~pagination'.present
          ELSE /\ pagination'.present
               /\ (pagination'.prev = "disabled") <=> (current_page = 1)
               /\ (pagination'.next = "disabled") <=> (current_page = total_pages)]_vars


\* the path of names leads to an entry of the mapping
RECURSIVE Resolves(_, _)
Resolves(value, keys) ==
    \/ keys = <<>>
    \/ /\ value.type = "dict"
       /\ Head(keys) \in DOMAIN value.entries
       /\ Resolves(value.entries[Head(keys)], Tail(keys))

\* C11: Translator.get(key) returns the key text itself, without raising,
\* for every dot-delimited key that resolves to no entry of the loaded
\* translations: also when the path continues below a plain string, and when
\* no translation file was loaded.
C11_MissingKeyReturnsKey ==
    (calc.op = "got" /\ ~Resolves(calc.translations, split(calc.key, <<>>))) =>
        calc.result = [raised |-> "none", text |-> calc.key]


\* C12: constructing a Translator terminates after at most two calls of
\* load_translations (one re-invocation); when the file of the requested
\* language is missing or unreadable it ends with language "en", holding the
\* English translations if that file is readable and the empty mapping if
\* it is not.
C12_FallbackToEnglish ==
    calc.op = "load" =>
        /\ calc.calls <= 2
        /\ (calc.pc = "call" => calc.calls < 2)
        /\ (calc.pc = "done" /\ calc.files[calc.requested] # "ok") =>
              /\ calc.language = "en"
              /\ calc.files["en"] = "ok" => calc.translations = FileContent("en")
              /\ calc.files["en"] # "ok" => calc.translations = EmptyTranslations

\* a Translator for a language without a file has fallen back to English
C12_Witness ==
    /\ calc.op = "load" /\ calc.pc = "done"
    /\ calc.requested = "it" /\ calc.files["it"] = "missing"
    /\ calc.files["en"] = "ok"
    /\ calc.language = "en" /\ calc.translations = FileContent("en")
    /\ calc.calls = 2


\* a token with its first character in upper case
Capitalised(token) == <<upper(Head(token))>> \o Tail(token)

\* C13: the cell title of a tags text with n whitespace-separated tokens is
\* the first min(5, n) tokens in their order, each capitalised, joined by
\* single spaces, followed by "..." exactly when n > 5.
C13_TitleText ==
    calc.op = "titled" =>
        LET tokens == split_whitespace(calc.tags)
            n == Len(tokens)
        IN  calc.result =
                join([i \in 1..Min(5, n) |-> Capitalised(tokens[i])])
                    \o (IF n > 5 THEN Ellipsis ELSE <<>>)


\* the most recently started request
Latest == Len(threads)

\* every thread has ended and every posted callback has been run
Quiescent == after_queue = <<>> /\ \A r \in Requests : threads[r].pc = "done"

\* C14: a newer request supersedes every earlier one: when all in-flight
\* work has finished and the most recent request stored a result page, the
\* stored results are those of the most recent request.
C14_LatestRequestWins ==
    (threads # <<>> /\ Quiescent /\ threads[Latest].result = "ok") =>
        \A i \in DOMAIN images : images[i].src = Latest


\* C15: once stop_search has cancelled a search, the UI thread runs no
\* status update, progress step or render that originates from it, whether
\* the callback was posted before or after the flag was set.
C15_NoCallbackOfCancelledSearch ==
    [][(run_update_status \/ run_progress_step \/ run_display_images) =>
          Head(after_queue).req \notin cancelled]_vars


\* the widgets: search button, stop button, progress bar, status line, result
\* grid and pagination frame
widgets ==
    <<search_btn, stop_btn_packed, progress_packed, progress_running,
      status_var, grid, pagination, pagination_packed>>

\* C16: every widget mutation is executed by the UI thread: a step of a
\* background worker thread changes no widget, it only posts callbacks.
C16_WorkersLeaveWidgets ==
    [][\A r \in Requests : WorkerStep(r) => UNCHANGED widgets]_vars


\* C17: every blocking HTTP call is executed by a worker thread: a callback
\* the UI thread runs, display_images included, makes no HTTP call.
C17_NoHttpOnUiThread ==
    [][run_display_images => image_requests(images) = 0]_vars


\* C18: a page request resets the cancellation flag before dispatching:
\* whenever Previous or Next can be activated, activating it leaves
\* stop_request false and starts the HTTP request of the page, also after an
\* earlier stop_search.
C18_PageRequestDispatches ==
    Len(threads) < MaxRequests =>
        /\ NextClickable =>
              ENABLED (click_next /\ ~stop_request' /\ Len(threads') = Len(threads) + 1)
        /\ PreviousClickable =>
              ENABLED (click_previous /\ ~stop_request' /\ Len(threads') = Len(threads) + 1)


\* C19: when search_images has accepted a non-empty query q and started the
\* thread, stop_request is false, current_page is 1 and current_query is q,
\* before any other user action can be handled.
C19_SearchStateInPlace ==
    [][\A q \in Queries :
          (~IsBlank(q) /\ search_images(q)) =>
              /\ stop_request' = FALSE
              /\ current_page' = 1
              /\ current_query' = strip(q)]_vars


\* positions of the thread search_images starts, before it hands over to
\* _fetch_images
SearchStages == {"ps_check", "ps_ui", "ps_store"}

\* C20: from the moment search_images accepts a query until that search has
\* completed or been cancelled, the search button stays disabled and the
\* stop button stays visible, whatever earlier searches do; and the stop
\* button is visible only while some request is unfinished.
C20_NoResubmissionWhileSearching ==
    /\ \A r \in Requests :
          (threads[r].pc \in SearchStages /\ r \notin cancelled) =>
              search_btn = "disabled" /\ stop_btn_packed
    /\ stop_btn_packed => \E r \in Requests : ~Finished(r)


\* the Previous/Next controls are on screen
ControlsShown == pagination.present /\ pagination_packed

\* C21: in every reachable state in which the Previous/Next controls are
\* shown, total_pages > 1; no controls of an earlier multi-page result stay
\* visible after a search whose response has zero hits.
C21_ControlsOnlyForSeveralPages == ControlsShown => total_pages > 1


\* the frames of the items whose image was fetched, in the order of creation
RenderedFrames == SelectSeq(grid, LAMBDA f : f.kind = "frame" /\ f.filled)

\* C22: after display_images the k-th rendered item (0-based, counting only
\* items whose image was fetched) is at row k div 4, column k mod 4, the
\* rendered items are the fetched ones in result order, and for rendered
\* items i < j the cell of i precedes the cell of j.
C22_RowMajorGrid ==
    rendered # {} =>
        LET cells == RenderedFrames
        IN  /\ [k \in DOMAIN cells |-> cells[k].item] = LoadedPhotos(images, failed_items)
            /\ \A k \in DOMAIN cells :
                  /\ cells[k].row = (k - 1) \div 4
                  /\ cells[k].col = (k - 1) % 4
            /\ \A m, n \in DOMAIN cells :
                  cells[m].item < cells[n].item =>
                      \/ cells[m].row < cells[n].row
                      \/ cells[m].row = cells[n].row /\ cells[m].col < cells[n].col

\* six items were rendered, the second failed, and the last one starts the
\* second row
C22_Witness ==
    /\ rendered # {}
    /\ Len(images) = 6 /\ failed_items = {2}
    /\ \E i \in DOMAIN grid :
          grid[i] = Frame(1, 0, 6, TRUE)

====
